---- MODULE Spec2Model ----
(***************************************************************************)
(* Certificate storage back ends of letsencrypt-certs-aws (storage.rs).    *)
(*                                                                         *)
(* The model follows one AcmStorage configuration through validate() and   *)
(* one save_certificate() call: the branch taken by save_certificate, the  *)
(* listing and describe fan-out of find_matching_certificate, the single   *)
(* import of import_new_certificate and the per-ARN fan-out of             *)
(* reimport_certificate, whose tasks are AcmImportTask futures polled by a *)
(* FuturesUnordered.                                                       *)
(*                                                                         *)
(* Strings that the code takes apart (ARNs) are sequences of tokens, the   *)
(* token ":" being the delimiter, so that split(':'), nth(3), len() and    *)
(* starts_with() are computed and not assumed.                             *)
(***************************************************************************)
EXTENDS Integers, Sequences, FiniteSets, TLC

(***************************************************************************)
(* Bounds of the model.                                                    *)
(***************************************************************************)
\* longest CertificateArns list of a configuration
MaxArns == 2
\* longest domain_names list passed to save_certificate
MaxDomains == 2
\* most polls of one AcmImportTask before its request answers
MaxPolls == 2

(***************************************************************************)
(* Option<T>: None is the empty tuple, Some(x) the tuple of x.              *)
(***************************************************************************)
None == <<>>
Some(x) == <<x>>
IsSome(o) == o # <<>>
Unwrap(o) == o[1]

(***************************************************************************)
(* Strings.                                                                *)
(***************************************************************************)
\* byte length of a token (str::len of the text the token stands for)
TokLen(tok) ==
    CASE tok = "arn" -> 3
      [] tok = "urn" -> 3
      [] tok = "aws" -> 3
      [] tok = "acm" -> 3
      [] tok = "us-east-1" -> 9
      [] tok = "eu-west-1" -> 9
      [] tok = "mars-1" -> 6
      [] tok = "123456789012" -> 12
      [] tok = "12345678901x" -> 12
      [] tok = "1234" -> 4
      [] tok = "certificate/" -> 12
      [] tok = "abc" -> 3
      [] tok = "def" -> 3
      [] tok = "ghi" -> 3
      [] tok = ":" -> 1

RECURSIVE StrLen(_)
\* str::len of a token sequence
StrLen(s) == IF s = <<>> THEN 0 ELSE TokLen(Head(s)) + StrLen(Tail(s))

RECURSIVE SplitFrom(_, _)
\* str::split(':') continued: cur is the part being read
SplitFrom(s, cur) ==
    IF s = <<>> THEN <<cur>>
    ELSE IF Head(s) = ":" THEN <<cur>> \o SplitFrom(Tail(s), <<>>)
    ELSE SplitFrom(Tail(s), Append(cur, Head(s)))

\* arn_str.split(':').collect::<Vec<&str>>()
Split(s) == SplitFrom(s, <<>>)

\* str::starts_with for a one-token prefix
StartsWith(s, tok) == Len(s) >= 1 /\ s[1] = tok

\* the one-token string
Str(tok) == <<tok>>

\* region names rusoto's Region::from_str accepts (those the model uses)
KnownRegions == {"us-east-1", "eu-west-1"}

\* Region::from_str(region_str).is_ok()
RegionIsOk(region_str) == Len(region_str) = 1 /\ region_str[1] \in KnownRegions

\* Region::from_str(region_str) of a string it accepts
RegionFromStr(region_str) == region_str[1]

\* Region::default()
DefaultRegion == "us-east-1"

\* "arn:<partition>:acm:<region>:<account>:certificate/<id>" as tokens
MkArn(head, partition, service, region, account, id) ==
    <<head, ":">> \o partition \o <<":", service, ":", region, ":", account, ":", "certificate/">> \o id

ArnEast == MkArn("arn", <<"aws">>, "acm", "us-east-1", "123456789012", <<"abc">>)
ArnWest == MkArn("arn", <<"aws">>, "acm", "eu-west-1", "123456789012", <<"def">>)
ArnEast2 == MkArn("arn", <<"aws">>, "acm", "us-east-1", "123456789012", <<"ghi">>)
\* 12 characters in the account field that are not all digits
ArnBadAccount == MkArn("arn", <<"aws">>, "acm", "eu-west-1", "12345678901x", <<"abc">>)
\* nothing after "certificate/"
ArnEmptyId == MkArn("arn", <<"aws">>, "acm", "us-east-1", "123456789012", <<>>)
ArnBadRegion == MkArn("arn", <<"aws">>, "acm", "mars-1", "123456789012", <<"abc">>)
ArnShortAccount == MkArn("arn", <<"aws">>, "acm", "us-east-1", "1234", <<"abc">>)
ArnNoPartition == MkArn("arn", <<>>, "acm", "us-east-1", "123456789012", <<"abc">>)
ArnNotArn == MkArn("urn", <<"aws">>, "acm", "us-east-1", "123456789012", <<"abc">>)
\* three fields only
ArnTruncated == <<"arn", ":", "aws", ":", "acm">>

\* strings a configuration may list as CertificateArns
ConfigArns ==
    {ArnEast, ArnWest, ArnBadAccount, ArnEmptyId, ArnBadRegion, ArnShortAccount,
     ArnNoPartition, ArnNotArn, ArnTruncated}

\* sequences over S of length at most n
SeqsUpTo(S, n) == UNION {[1..k -> S] : k \in 0..n}

Range(s) == {s[i] : i \in DOMAIN s}


\* position of a domain name in the byte-wise order of Rust's String Ord
StrRank(d) ==
    CASE d = "a.com" -> 1
      [] d = "b.com" -> 2
      [] d = "c.com" -> 3

RECURSIVE Insert(_, _)
\* x put before the first element of the sorted list s that is larger
Insert(x, s) ==
    IF s = <<>> THEN <<x>>
    ELSE IF StrRank(x) <= StrRank(Head(s)) THEN <<x>> \o s
    ELSE <<Head(s)>> \o Insert(x, Tail(s))

RECURSIVE Sort(_)
\* Vec<String>::sort
Sort(s) == IF s = <<>> THEN <<>> ELSE Insert(Head(s), Sort(Tail(s)))

(***************************************************************************)
(* Constants of crate::constants and the certificates ACM may hold.        *)
(***************************************************************************)
ACM_STATUS_ISSUED == "ISSUED"
ACM_STATUS_EXPIRED == "EXPIRED"
ACM_TYPE_IMPORTED == "IMPORTED"

\* domain names a caller may request
Domains == {"a.com", "b.com"}

\* the domain_names arguments of save_certificate
DomainLists == SeqsUpTo(Domains, MaxDomains)

\* what ACM may hold for one certificate: CertificateSummary.domain_name and
\* CertificateDetail.{status, type_, subject_alternative_names}
Profiles ==
    { [status |-> "ISSUED", type_ |-> Some("IMPORTED"), domain_name |-> Some("a.com"),
       subject_alternative_names |-> Some(<<"a.com", "b.com">>)],
      [status |-> "EXPIRED", type_ |-> Some("IMPORTED"), domain_name |-> Some("b.com"),
       subject_alternative_names |-> Some(<<"b.com", "a.com">>)],
      [status |-> "ISSUED", type_ |-> Some("AMAZON_ISSUED"), domain_name |-> Some("a.com"),
       subject_alternative_names |-> Some(<<"a.com", "b.com">>)],
      [status |-> "PENDING_VALIDATION", type_ |-> Some("IMPORTED"), domain_name |-> Some("a.com"),
       subject_alternative_names |-> Some(<<"a.com", "b.com">>)],
      [status |-> "ISSUED", type_ |-> Some("IMPORTED"), domain_name |-> Some("a.com"),
       subject_alternative_names |-> Some(<<"a.com">>)],
      [status |-> "ISSUED", type_ |-> Some("IMPORTED"), domain_name |-> Some("a.com"),
       subject_alternative_names |-> Some(<<"a.com", "b.com", "c.com">>)],
      [status |-> "ISSUED", type_ |-> None, domain_name |-> None,
       subject_alternative_names |-> None] }

\* the ARNs of the certificates ACM holds in the default region
CatalogArns == {ArnEast, ArnEast2}

\* the ARN ACM gives a newly imported certificate
ArnNew == MkArn("arn", <<"aws">>, "acm", "us-east-1", "123456789012", <<"new">>)

\* what ACM may hold: some of CatalogArns, each with a profile
Catalogs == UNION {[A -> Profiles] : A \in SUBSET CatalogArns}

(***************************************************************************)
(* State.                                                                  *)
(***************************************************************************)
VARIABLES
    certificate_arns,   \* AcmStorage.certificate_arns: Option<Vec<String>>
    force_new_import,   \* AcmStorage.force_new_import
    pc,                 \* where the caller is: "start", "invalid", "validated",
                        \* "listing", "describing", "importing", "reimporting",
                        \* "done" (save_certificate returned), "panic"
    validate_ret,       \* what validate() returned
    domain_names,       \* find_matching_certificate: domain_names, the only use of the
                        \* domain_names argument of save_certificate
    save_ret,           \* "None" until save_certificate returns, then "Ok" or "Err"
    acm_certs,          \* find_matching_certificate: the certificates ACM holds
    lc_next_token,      \* lc_request.next_token
    candidates,         \* find_matching_certificate: candidates
    futures,            \* find_matching_certificate: describe futures not yet complete
    describe_outcome,   \* how each candidate's describe call ended
    matched,            \* find_matching_certificate: results collected so far
    n_list,             \* list_certificates calls made
    n_describe,         \* describe_certificate calls made
    existing_arns,      \* reimport_certificate: existing_arns
    tasks,              \* reimport_certificate: the AcmImportTask of each index
    task_state,         \* per task: "Pending", or the Output it completed with
    n_issued,           \* per task: import_certificate calls it has made
    updates,            \* the update calls made: request ARN and client region
    completed,          \* task indexes in order of completion
    results,            \* the Vec<CertificateStorageResult> being built or returned
    n_create,           \* import_certificate calls made without an ARN (creates)
    storage,            \* the S3Storage or SsmParameterStorage configuration
    spc,                \* where the caller of that storage is: "start", "invalid",
                        \* "validated", "writing", "done", "panic"
    sdomains,           \* SsmParameterStorage::save_certificate: domain_names
    writes,             \* per component: its write_cert_component_to_ssm future
    ssm_puts,           \* the put_parameter requests made
    ssm_gets,           \* the get_parameter requests made
    s3_writes,          \* the object writes made by S3Storage::save_certificate
    sret                \* what save_certificate of that storage returned

cfgVars == <<certificate_arns, force_new_import>>
matchVars ==
    <<acm_certs, lc_next_token, candidates, futures, describe_outcome, matched, n_list,
      n_describe>>
execVars ==
    <<existing_arns, tasks, task_state, n_issued, updates, completed, results, n_create>>
storeVars == <<storage, spc, sdomains, writes, ssm_puts, ssm_gets, s3_writes, sret>>
acmVars == <<cfgVars, pc, validate_ret, domain_names, save_ret, matchVars, execVars>>
vars == <<acmVars, storeVars>>

(***************************************************************************)
(* AcmStorage::validate                                                    *)
(***************************************************************************)
\* variant of ArnShapeOk: the region field is not resolved
ArnShapeOk_RegionUnchecked(arn_str) ==
    LET parts == Split(arn_str) IN
        /\ Len(parts) = 6
        /\ parts[1] = Str("arn")
        /\ StrLen(parts[2]) > 0
        /\ parts[3] = Str("acm")
        /\ StrLen(parts[5]) = 12
        /\ StartsWith(parts[6], "certificate/")

\* the test validate() makes of one arn_str
ArnShapeOk(arn_str) ==
    LET parts == Split(arn_str) IN
        /\ Len(parts) = 6
        /\ parts[1] = Str("arn")
        /\ StrLen(parts[2]) > 0
        /\ parts[3] = Str("acm")
        /\ StrLen(parts[5]) = 12
        /\ StartsWith(parts[6], "certificate/")
        /\ RegionIsOk(parts[4])

RECURSIVE FirstBad(_, _)
\* the for loop of validate(): index of the first arn_str it rejects from i on, 0 if none
FirstBad(arns, i) ==
    IF i > Len(arns) THEN 0
    ELSE IF ArnShapeOk(arns[i]) THEN FirstBad(arns, i + 1)
    ELSE i

ValidateOk == [ok |-> TRUE, error |-> "", arn |-> None]
ValidateErr(kind, arn) == [ok |-> FALSE, error |-> kind, arn |-> arn]

\* variant of AcmStorage_validate: the identifiers are examined before the flags
AcmStorage_validate_ArnsFirst(arns, force) ==
    IF IsSome(arns)
    THEN LET bad == FirstBad(Unwrap(arns), 1) IN
            IF bad # 0 THEN ValidateErr("InvalidAcmCertificateArn", Some(Unwrap(arns)[bad]))
            ELSE IF force THEN ValidateErr("InvalidAcmConfiguration", None)
            ELSE ValidateOk
    ELSE ValidateOk

AcmStorage_validate(arns, force) ==
    IF IsSome(arns)
    THEN IF force
         THEN ValidateErr("InvalidAcmConfiguration", None)
         ELSE LET bad == FirstBad(Unwrap(arns), 1) IN
                 IF bad = 0 THEN ValidateOk
                 ELSE ValidateErr("InvalidAcmCertificateArn", Some(Unwrap(arns)[bad]))
    ELSE ValidateOk

Validate ==
    /\ pc = "start"
    /\ validate_ret' = AcmStorage_validate(certificate_arns, force_new_import)
    /\ pc' = IF validate_ret'.ok THEN "validated" ELSE "invalid"
    /\ UNCHANGED <<cfgVars, domain_names, save_ret, matchVars, execVars>>
    /\ UNCHANGED storeVars

(***************************************************************************)
(* CertificateStorageResult                                                *)
(***************************************************************************)
\* CertificateStorageResult::Acm(AcmStorageResult { certificate_arn })
AcmResult(certificate_arn) ==
    [type |-> "Acm", certificate_arn |-> Some(certificate_arn), message |-> <<>>]

\* CertificateStorageResult::Error(message): the fixed text, then what format! put in
ErrorResult(message) == [type |-> "Error", certificate_arn |-> None, message |-> message]

(***************************************************************************)
(* AcmStorage::import_new_certificate                                      *)
(***************************************************************************)
\* import_new_certificate up to its await: one import_certificate call, with no ARN
ImportNew ==
    /\ pc' = "importing"
    /\ n_create' = n_create + 1
    /\ UNCHANGED <<existing_arns, tasks, task_state, n_issued, updates, completed, results,
                   save_ret>>

\* the match on the answer of import_certificate
ImportNewResult(outcome) ==
    IF outcome = "Ok"
    THEN <<AcmResult(ArnNew)>>
    ELSE <<ErrorResult(<<"Failed to import certificate">>)>>

\* variant of ImportResponse: a failed import_certificate call is made once more
ImportResponse_Retry(outcome) ==
    /\ pc = "importing"
    /\ IF outcome = "Err" /\ n_create < 2
       THEN /\ n_create' = n_create + 1
            /\ UNCHANGED <<pc, results, save_ret>>
       ELSE /\ results' = ImportNewResult(outcome)
            /\ save_ret' = "Ok"
            /\ pc' = "done"
            /\ n_create' = n_create
    /\ UNCHANGED <<cfgVars, validate_ret, domain_names, matchVars, existing_arns, tasks,
                   task_state, n_issued, updates, completed>>
    /\ UNCHANGED storeVars

\* the import_certificate call of import_new_certificate answers
ImportResponse(outcome) ==
    /\ pc = "importing"
    /\ results' = ImportNewResult(outcome)
    /\ save_ret' = "Ok"
    /\ pc' = "done"
    /\ UNCHANGED <<cfgVars, validate_ret, domain_names, matchVars, existing_arns, tasks,
                   task_state, n_issued, updates, completed, n_create>>
    /\ UNCHANGED storeVars

(***************************************************************************)
(* AcmImportTask and AcmStorage::reimport_certificate                      *)
(***************************************************************************)
\* neither expect() of AcmImportTask::new panics
TaskNewOk(cert_arn) ==
    LET parts == Split(cert_arn) IN Len(parts) >= 4 /\ RegionIsOk(parts[4])

\* variant of TaskRegion: one client of the default region for every target
TaskRegion_Default(cert_arn) == DefaultRegion

\* the region AcmImportTask::new makes the client for
TaskRegion(cert_arn) == RegionFromStr(Split(cert_arn)[4])

\* AcmImportTask::new(cert_arn, imp_req), imp_req carrying certificate_arn
AcmImportTask_new(cert_arn, certificate_arn) ==
    [acm |-> TaskRegion(cert_arn), req |-> [certificate_arn |-> Some(certificate_arn)]]

\* the closure of existing_arns.into_iter().map(...)
MakeTask(cert_arn) == AcmImportTask_new(cert_arn, cert_arn)

\* reimport_certificate up to its await: the tasks are made and put in f
Reimport(arns) ==
    /\ existing_arns' = arns
    /\ n_create' = n_create
    /\ updates' = updates
    /\ completed' = <<>>
    /\ results' = <<>>
    /\ IF \A i \in DOMAIN arns : TaskNewOk(arns[i])
       THEN /\ tasks' = [i \in DOMAIN arns |-> MakeTask(arns[i])]
            /\ task_state' = [i \in DOMAIN arns |-> "Pending"]
            /\ n_issued' = [i \in DOMAIN arns |-> 0]
            /\ IF arns = <<>>
               THEN pc' = "done" /\ save_ret' = "Ok"
               ELSE pc' = "reimporting" /\ save_ret' = save_ret
       ELSE /\ pc' = "panic"
            /\ UNCHANGED <<tasks, task_state, n_issued, save_ret>>

\* the call a poll of the task makes: self.acm.import_certificate(self.req.clone())
TaskCall(task) == [region |-> task.acm, certificate_arn |-> Unwrap(task.req.certificate_arn)]

\* ImportCertificateResponse.certificate_arn of a reimport: the ARN of the request
ResponseArn(task) == Unwrap(task.req.certificate_arn)

\* variant of MapResult: the success entry too takes its ARN from existing_arns[i]
MapResult_IndexedOk(i, outcome, task, arns) ==
    IF outcome = "Ok"
    THEN AcmResult(arns[i + 1])
    ELSE ErrorResult(<<"Failed to reimport certificate", arns[i + 1]>>)

\* the closure of f.enumerate().map(...): i counts the completions so far, from 0
MapResult(i, outcome, task, arns) ==
    IF outcome = "Ok"
    THEN AcmResult(ResponseArn(task))
    ELSE ErrorResult(<<"Failed to reimport certificate", arns[i + 1]>>)

\* FuturesUnordered polls task t: poll() makes a new import_certificate future, polls
\* it once and drops it; the poll answers Pending or the Output of the call
Poll(t, outcome) ==
    /\ pc = "reimporting"
    /\ t \in DOMAIN tasks
    /\ task_state[t] = "Pending"
    /\ outcome = "Pending" => n_issued[t] + 1 < MaxPolls
    /\ n_issued' = [n_issued EXCEPT ![t] = @ + 1]
    /\ updates' = updates \cup {TaskCall(tasks[t])}
    /\ task_state' = [task_state EXCEPT ![t] = outcome]
    /\ IF outcome = "Pending"
       THEN UNCHANGED <<results, completed, pc, save_ret>>
       ELSE /\ results' = Append(results, MapResult(Len(results), outcome, tasks[t], existing_arns))
            /\ completed' = Append(completed, t)
            /\ IF \A u \in DOMAIN tasks : task_state'[u] # "Pending"
               THEN pc' = "done" /\ save_ret' = "Ok"
               ELSE UNCHANGED <<pc, save_ret>>
    /\ UNCHANGED <<cfgVars, validate_ret, domain_names, matchVars, existing_arns, tasks,
                   n_create>>
    /\ UNCHANGED storeVars

(***************************************************************************)
(* AcmStorage::find_matching_certificate                                   *)
(***************************************************************************)
\* lc_request.certificate_statuses
CertificateStatuses == {ACM_STATUS_ISSUED, ACM_STATUS_EXPIRED}

\* what ACM lists for a request with these statuses
Listed(certs, statuses) == {a \in DOMAIN certs : certs[a].status \in statuses}

\* the certificates a list_certificates call still has to return
ListPool(certs, statuses, next_token) ==
    IF IsSome(next_token) THEN Unwrap(next_token) ELSE Listed(certs, statuses)

\* the orders in which one page may give some of the certificates of pool
Pages(pool) ==
    {p \in SeqsUpTo(pool, Cardinality(pool)) :
        /\ \A i, j \in DOMAIN p : i # j => p[i] # p[j]
        /\ pool # {} => p # <<>>}

\* the summary test of the listing loop, which indexes domain_names[0]
SummaryPanics(certs, arn, names) == IsSome(certs[arn].domain_name) /\ names = <<>>

\* the summary test of the listing loop: the primary domain is domain_names[0]
SummaryMatches(certs, arn, names) ==
    /\ IsSome(certs[arn].domain_name)
    /\ Unwrap(certs[arn].domain_name) = names[1]

RECURSIVE PushCandidates(_, _, _, _)
\* the for loop over summaries: candidates after the summaries of page
PushCandidates(cands, page, certs, names) ==
    IF page = <<>> THEN cands
    ELSE PushCandidates(
            IF SummaryMatches(certs, Head(page), names) THEN Append(cands, Head(page))
            ELSE cands,
            Tail(page), certs, names)

\* variant of FilterMap: a certificate is kept when it covers the requested domains
FilterMap_Covers(outcome, arn, certs, names) ==
    IF outcome # "Ok" THEN None
    ELSE LET detail == certs[arn] IN
        IF /\ IsSome(detail.type_) /\ Unwrap(detail.type_) = ACM_TYPE_IMPORTED
           /\ IsSome(detail.subject_alternative_names)
           /\ Range(names) \subseteq Range(Unwrap(detail.subject_alternative_names))
        THEN Some(arn)
        ELSE None

\* the filter_map closure on one describe answer: Some(arn) to keep, None to drop
FilterMap(outcome, arn, certs, names) ==
    IF outcome = "Err" THEN None
    ELSE IF outcome = "NoCertificate" THEN None
    ELSE LET detail == certs[arn] IN
        IF IsSome(detail.type_) /\ Unwrap(detail.type_) = ACM_TYPE_IMPORTED
        THEN IF IsSome(detail.subject_alternative_names)
             THEN IF Sort(Unwrap(detail.subject_alternative_names)) = names
                  THEN Some(arn)
                  ELSE None
             ELSE None
        ELSE None

\* variant of AfterMatch: a new certificate is imported whatever was found
AfterMatch_AlwaysNew(arns) == ImportNew

\* save_certificate after find_matching_certificate returned Ok(arns)
AfterMatch(arns) == IF Len(arns) = 0 THEN ImportNew ELSE Reimport(arns)

\* one list_certificates call of the loop answers: an error, or a page of summaries
ListCertificates(outcome, page) ==
    /\ pc = "listing"
    /\ n_list' = n_list + 1
    /\ IF outcome = "Err"
       THEN /\ pc' = "done"
            /\ save_ret' = "Err"
            /\ UNCHANGED <<lc_next_token, candidates, futures, describe_outcome, matched,
                           n_describe, execVars>>
       ELSE LET pool == ListPool(acm_certs, CertificateStatuses, lc_next_token)
                rest == pool \ Range(page) IN
            /\ page \in Pages(pool)
            /\ IF \E i \in DOMAIN page : SummaryPanics(acm_certs, page[i], domain_names)
               THEN /\ pc' = "panic"
                    /\ UNCHANGED <<lc_next_token, candidates, futures, describe_outcome,
                                   matched, n_describe, execVars, save_ret>>
               ELSE /\ candidates' = PushCandidates(candidates, page, acm_certs, domain_names)
                    /\ matched' = <<>>
                    /\ IF rest # {}
                       THEN /\ lc_next_token' = Some(rest)
                            /\ pc' = "listing"
                            /\ UNCHANGED <<futures, describe_outcome, n_describe, execVars,
                                           save_ret>>
                       ELSE /\ lc_next_token' = lc_next_token
                            /\ futures' = DOMAIN candidates'
                            /\ describe_outcome' = [i \in DOMAIN candidates' |-> "Pending"]
                            /\ n_describe' = n_describe + Len(candidates')
                            /\ IF candidates' = <<>>
                               THEN AfterMatch(<<>>)
                               ELSE pc' = "describing" /\ UNCHANGED <<execVars, save_ret>>
    /\ UNCHANGED <<cfgVars, validate_ret, domain_names, acm_certs>>
    /\ UNCHANGED storeVars

\* variant of DescribeResponse: a failed describe call ends the pass with its error
DescribeResponse_AbortOnErr(i, outcome) ==
    /\ pc = "describing"
    /\ i \in futures
    /\ futures' = futures \ {i}
    /\ describe_outcome' = [describe_outcome EXCEPT ![i] = outcome]
    /\ LET kept == FilterMap(outcome, candidates[i], acm_certs, domain_names) IN
           matched' = IF IsSome(kept) THEN Append(matched, Unwrap(kept)) ELSE matched
    /\ IF outcome = "Err"
       THEN pc' = "done" /\ save_ret' = "Err" /\ UNCHANGED execVars
       ELSE IF futures' = {}
       THEN AfterMatch(matched')
       ELSE UNCHANGED <<pc, save_ret, execVars>>
    /\ UNCHANGED <<cfgVars, validate_ret, domain_names, acm_certs, lc_next_token, candidates,
                   n_list, n_describe>>
    /\ UNCHANGED storeVars

\* the describe_certificate call for candidate i completes; with the last one
\* find_matching_certificate returns and save_certificate goes on
DescribeResponse(i, outcome) ==
    /\ pc = "describing"
    /\ i \in futures
    /\ futures' = futures \ {i}
    /\ describe_outcome' = [describe_outcome EXCEPT ![i] = outcome]
    /\ LET kept == FilterMap(outcome, candidates[i], acm_certs, domain_names) IN
           matched' = IF IsSome(kept) THEN Append(matched, Unwrap(kept)) ELSE matched
    /\ IF futures' = {}
       THEN AfterMatch(matched')
       ELSE UNCHANGED <<pc, save_ret, execVars>>
    /\ UNCHANGED <<cfgVars, validate_ret, domain_names, acm_certs, lc_next_token, candidates,
                   n_list, n_describe>>
    /\ UNCHANGED storeVars

(***************************************************************************)
(* AcmStorage::save_certificate                                            *)
(***************************************************************************)
\* variant of SaveBranch: force_new_import is not looked at
SaveBranch_IgnoreForce(arns, force) ==
    IF IsSome(arns) THEN "reimport" ELSE "find_matching"

\* variant of SaveBranch: certificate_arns is not looked at
SaveBranch_IgnoreArns(arns, force) ==
    IF force THEN "import_new" ELSE "find_matching"

\* the branch save_certificate takes
SaveBranch(arns, force) ==
    IF force THEN "import_new"
    ELSE IF IsSome(arns) THEN "reimport"
    ELSE "find_matching"

\* save_certificate is called on a validated configuration and runs to its first await
SaveCertificate(names, certs) ==
    /\ pc = "validated"
    /\ LET branch == SaveBranch(certificate_arns, force_new_import) IN
        IF branch = "import_new"
        THEN ImportNew /\ UNCHANGED <<domain_names, matchVars>>
        ELSE IF branch = "reimport"
        THEN Reimport(Unwrap(certificate_arns)) /\ UNCHANGED <<domain_names, matchVars>>
        ELSE /\ domain_names' = names
             /\ acm_certs' = certs
             /\ pc' = "listing"
             /\ UNCHANGED <<lc_next_token, candidates, futures, describe_outcome, matched,
                            n_list, n_describe, execVars, save_ret>>
    /\ UNCHANGED <<cfgVars, validate_ret>>
    /\ UNCHANGED storeVars

(***************************************************************************)
(* S3Storage                                                               *)
(***************************************************************************)
\* the S3Storage configurations, before validate()
S3Configs ==
    [Type : {"S3"}, bucket : {"", "certs-bucket", "other-bucket"}, prefix : {"", "tls/"},
     region : {None}]

\* what get_bucket_location may answer: an error, or a location constraint
BucketLocations == {"Err", "Ok"} \X {None, Some("eu-west-1"), Some("mars-1")}

\* utils::s3_bucket_location_constraint_to_region: no constraint is the default
\* region, an unrecognized constraint is an error (None here)
LocationConstraintToRegion(location_constraint) ==
    IF ~IsSome(location_constraint) THEN Some(DefaultRegion)
    ELSE IF Unwrap(location_constraint) \in KnownRegions THEN location_constraint
    ELSE None

\* S3Storage::validate: the region it caches, None when it fails
S3Region(bucket, answer) ==
    IF bucket = "" THEN None
    ELSE IF answer[1] = "Err" THEN None
    ELSE LocationConstraintToRegion(answer[2])

\* S3Storage::validate, get_bucket_location answering with answer
S3Validate(answer) ==
    /\ storage.Type = "S3"
    /\ spc = "start"
    /\ LET region == S3Region(storage.bucket, answer) IN
        IF IsSome(region)
        THEN storage' = [storage EXCEPT !.region = region] /\ spc' = "validated"
        ELSE storage' = storage /\ spc' = "invalid"
    /\ UNCHANGED <<sdomains, writes, ssm_puts, ssm_gets, s3_writes, sret>>
    /\ UNCHANGED acmVars

\* variant of S3SaveCertificate: the four objects are written and a result returned
S3SaveCertificate_Writes(names) ==
    /\ storage.Type = "S3"
    /\ spc = "validated"
    /\ s3_writes' = {"Certificate", "Chain", "FullChain", "PrivateKey"}
    /\ spc' = "done"
    /\ sret' = [ok |-> TRUE, error |-> "", component |-> ""]
    /\ UNCHANGED <<storage, sdomains, writes, ssm_puts, ssm_gets>>
    /\ UNCHANGED acmVars

\* S3Storage::save_certificate: unimplemented!() panics, whatever the arguments
S3SaveCertificate(names) ==
    /\ storage.Type = "S3"
    /\ spc = "validated"
    /\ spc' = "panic"
    /\ UNCHANGED <<storage, sdomains, writes, ssm_puts, ssm_gets, s3_writes, sret>>
    /\ UNCHANGED acmVars

(***************************************************************************)
(* SsmParameterStorage                                                     *)
(***************************************************************************)
\* the SsmParameterStorage configurations, before validate()
SsmConfigs == [Type : {"SsmParameter"}, path : {"/certs", "/certs/", "certs"}]

\* utils::validate_and_sanitize_ssm_parameter_path on the paths of the model
SanitizePath(path) ==
    CASE path = "/certs" -> Some("/certs")
      [] path = "/certs/" -> Some("/certs")
      [] path = "certs" -> None

\* SsmParameterStorage::validate
SsmValidate ==
    /\ storage.Type = "SsmParameter"
    /\ spc = "start"
    /\ LET path == SanitizePath(storage.path) IN
        IF IsSome(path)
        THEN storage' = [storage EXCEPT !.path = Unwrap(path)] /\ spc' = "validated"
        ELSE storage' = storage /\ spc' = "invalid"
    /\ UNCHANGED <<sdomains, writes, ssm_puts, ssm_gets, s3_writes, sret>>
    /\ UNCHANGED acmVars

\* the arguments of the four write_cert_component_to_ssm calls, in the order of join!
WriteArgs ==
    << [component |-> "Certificate", data |-> "cert_pem", secure |-> FALSE],
       [component |-> "Chain", data |-> "chain_pem", secure |-> FALSE],
       [component |-> "FullChain", data |-> "fullchain_pem", secure |-> FALSE],
       [component |-> "PrivateKey", data |-> "pkey_pem", secure |-> TRUE] >>

\* the branches of join!, by position
Components == DOMAIN WriteArgs

\* format!("{}/Certificate/{}/{}", self.path, domain_name, component)
ParamName(path, domain_name, component) ==
    <<path, "/Certificate/", domain_name, "/", component>>

\* variant of ParamType: every parameter is a plain String
ParamType_Plain(secure) == Some("String")

\* param_type of write_cert_component_to_ssm
ParamType(secure) == IF secure THEN Some("SecureString") ELSE Some("String")

\* pp_request of write_cert_component_to_ssm
PutRequest(path, domain_name, args) ==
    [name |-> ParamName(path, domain_name, args.component),
     description |-> <<"SSL ", args.component, " for ", domain_name>>,
     overwrite |-> Some(TRUE),
     type_ |-> ParamType(args.secure),
     value |-> args.data]

\* gp_request of write_cert_component_to_ssm
GetRequest(path, domain_name, args) == [name |-> ParamName(path, domain_name, args.component)]

\* a write_cert_component_to_ssm future: its put and get calls ("None" not made,
\* "InFlight", or how the call answered) and its Output ("Pending" until complete)
NewWrite == [put |-> "None", get |-> "None", ret |-> "Pending"]

\* variant of Started: each write is awaited before the next one is begun
Started_Sequential(w) == {c \in Components : \A d \in 1..(c - 1) : w[d].ret # "Pending"}

\* the branches join! has polled: all four, in its first poll
Started(w) == Components

\* the futures after a poll of join!: a started branch runs to its put_parameter await
PollJoin(w) ==
    [c \in Components |->
        IF c \in Started(w) /\ w[c].put = "None" THEN [w[c] EXCEPT !.put = "InFlight"]
        ELSE w[c]]

\* the put_parameter requests a poll of join! makes
NewPuts(w, path, names) ==
    {PutRequest(path, names[1], WriteArgs[c]) : c \in {d \in Components : w[d].put = "None" /\ PollJoin(w)[d].put = "InFlight"}}

\* the match on the answer of put_parameter: Ok goes on to get_parameter, Err is
\* returned as Box::new(e)
AfterPut(write, answer) ==
    IF answer = "Ok"
    THEN [write EXCEPT !.put = "Ok", !.get = "InFlight"]
    ELSE [write EXCEPT !.put = "Err", !.ret = "RusotoError"]

\* the match on the answer of get_parameter: "Ok" has a parameter with an ARN,
\* "NoParameter" and "NoArn" lack one of them, "Err" is a failed call
AfterGet(write, answer) ==
    IF answer = "Ok"
    THEN [write EXCEPT !.get = "Ok", !.ret = "Ok"]
    ELSE [write EXCEPT !.get = answer, !.ret = "UnexpectedResponse"]

RECURSIVE FirstFailed(_, _)
\* cert?, chain?, fullchain?, pkey? in this order: the first branch that is an Err, 0 if none
FirstFailed(w, c) ==
    IF c > Len(WriteArgs) THEN 0
    ELSE IF w[c].ret # "Ok" THEN c
    ELSE FirstFailed(w, c + 1)

\* what save_certificate returns once join! is complete
SsmReturn(w) ==
    LET c == FirstFailed(w, 1) IN
        IF c = 0 THEN [ok |-> TRUE, error |-> "", component |-> ""]
        ELSE [ok |-> FALSE, error |-> w[c].ret, component |-> WriteArgs[c].component]

NoReturn == [ok |-> FALSE, error |-> "None", component |-> ""]

\* variant of JoinComplete: the first branch that fails completes the join (try_join!)
JoinComplete_FirstError(w) ==
    \/ \A c \in Components : w[c].ret # "Pending"
    \/ \E c \in Components : w[c].ret \notin {"Pending", "Ok"}

\* join! is complete when its four branches are
JoinComplete(w) == \A c \in Components : w[c].ret # "Pending"

\* after an answer: join! is polled again and, when complete, save_certificate returns
SsmStep(w) ==
    /\ writes' = PollJoin(w)
    /\ ssm_puts' = ssm_puts \cup NewPuts(w, storage.path, sdomains)
    /\ IF JoinComplete(w)
       THEN spc' = "done" /\ sret' = SsmReturn(w)
       ELSE spc' = "writing" /\ sret' = sret

\* SsmParameterStorage::save_certificate up to the await of join!
SsmSaveCertificate(names) ==
    /\ storage.Type = "SsmParameter"
    /\ spc = "validated"
    /\ sdomains' = names
    /\ IF names = <<>>
       THEN spc' = "panic" /\ UNCHANGED <<writes, ssm_puts, sret>>
       ELSE /\ writes' = PollJoin(writes)
            /\ ssm_puts' = NewPuts(writes, storage.path, names)
            /\ spc' = "writing"
            /\ sret' = sret
    /\ UNCHANGED <<storage, ssm_gets, s3_writes>>
    /\ UNCHANGED acmVars

\* the put_parameter call of branch c answers
PutResponse(c, answer) ==
    /\ spc = "writing"
    /\ writes[c].put = "InFlight"
    /\ LET w == [writes EXCEPT ![c] = AfterPut(@, answer)] IN
        /\ SsmStep(w)
        /\ ssm_gets' =
             IF w[c].get = "InFlight"
             THEN ssm_gets \cup {GetRequest(storage.path, sdomains[1], WriteArgs[c])}
             ELSE ssm_gets
    /\ UNCHANGED <<storage, sdomains, s3_writes>>
    /\ UNCHANGED acmVars

\* the get_parameter call of branch c answers
GetResponse(c, answer) ==
    /\ spc = "writing"
    /\ writes[c].get = "InFlight"
    /\ SsmStep([writes EXCEPT ![c] = AfterGet(@, answer)])
    /\ UNCHANGED <<storage, sdomains, ssm_gets, s3_writes>>
    /\ UNCHANGED acmVars

(***************************************************************************)
(* The specification.                                                      *)
(***************************************************************************)
EmptyCatalog == [a \in {} |-> 0]

\* no call made yet on the AcmStorage
AcmIdle ==
    /\ pc = "start"
    /\ validate_ret = ValidateOk
    /\ domain_names = <<>>
    /\ save_ret = "None"
    /\ acm_certs = EmptyCatalog
    /\ lc_next_token = None
    /\ candidates = <<>>
    /\ futures = {}
    /\ describe_outcome = <<>>
    /\ matched = <<>>
    /\ n_list = 0
    /\ n_describe = 0
    /\ existing_arns = <<>>
    /\ tasks = <<>>
    /\ task_state = <<>>
    /\ n_issued = <<>>
    /\ updates = {}
    /\ completed = <<>>
    /\ results = <<>>
    /\ n_create = 0

\* no call made yet on the S3Storage or SsmParameterStorage
StoreIdle ==
    /\ spc = "start"
    /\ sdomains = <<>>
    /\ writes = [c \in Components |-> NewWrite]
    /\ ssm_puts = {}
    /\ ssm_gets = {}
    /\ s3_writes = {}
    /\ sret = NoReturn

\* CertificateStorage::Acm
Init ==
    /\ certificate_arns \in {None} \cup {Some(l) : l \in SeqsUpTo(ConfigArns, MaxArns)}
    /\ force_new_import \in BOOLEAN
    /\ AcmIdle
    /\ storage = [Type |-> "Acm"]
    /\ StoreIdle

\* CertificateStorage::S3 and CertificateStorage::SsmParameter
InitStores ==
    /\ certificate_arns = None
    /\ force_new_import = FALSE
    /\ AcmIdle
    /\ storage \in S3Configs \cup SsmConfigs
    /\ StoreIdle

Next ==
    \/ Validate
    \/ \E names \in DomainLists, certs \in Catalogs : SaveCertificate(names, certs)
    \/ \E outcome \in {"Ok", "Err"}, page \in SeqsUpTo(CatalogArns, Cardinality(CatalogArns)) :
          ListCertificates(outcome, page)
    \/ \E i \in 1..Cardinality(CatalogArns), outcome \in {"Ok", "NoCertificate", "Err"} :
          DescribeResponse(i, outcome)
    \/ \E outcome \in {"Ok", "Err"} : ImportResponse(outcome)
    \/ \E t \in 1..(MaxArns + Cardinality(CatalogArns)), outcome \in {"Pending", "Ok", "Err"} :
          Poll(t, outcome)

Spec == Init /\ [][Next]_vars

NextStores ==
    \/ \E answer \in BucketLocations : S3Validate(answer)
    \/ \E names \in DomainLists : S3SaveCertificate(names)
    \/ SsmValidate
    \/ \E names \in DomainLists : SsmSaveCertificate(names)
    \/ \E c \in Components, answer \in {"Ok", "Err"} : PutResponse(c, answer)
    \/ \E c \in Components, answer \in {"Ok", "NoParameter", "NoArn", "Err"} :
          GetResponse(c, answer)

SpecStores == InitStores /\ [][NextStores]_vars

(***************************************************************************)
(* Vocabulary of the properties.                                           *)
(***************************************************************************)
\* save_certificate returned Ok(results)
ReturnedOk == pc = "done" /\ save_ret = "Ok"

\* a reimport fan-out was started
ReimportStarted == tasks # <<>>

\* the ARNs of the update calls made so far
UpdatedArns == {u.certificate_arn : u \in updates}

\* how many ":" precede position i of s
ColonsBefore(s, i) == Cardinality({j \in 1..(i - 1) : s[j] = ":"})

\* the tokens of the n-th colon-delimited field of s
FieldTokens(s, n) == {s[i] : i \in {j \in DOMAIN s : s[j] # ":" /\ ColonsBefore(s, j) = n - 1}}

\* how often x occurs in the list s
Count(x, s) == Cardinality({i \in DOMAIN s : s[i] = x})

\* s and t hold the same elements the same number of times: sorted, they are equal
SameSorted(s, t) ==
    /\ Len(s) = Len(t)
    /\ \A x \in Range(s) \cup Range(t) : Count(x, s) = Count(x, t)

\* the identifier a result entry names: the ARN of a success, the ARN in a failure message
EntryNames(entry, arn) ==
    IF entry.type = "Acm" THEN entry.certificate_arn = Some(arn)
    ELSE Len(entry.message) = 2 /\ entry.message[2] = arn

(***************************************************************************)
(* C1: in reimport_certificate every failure entry of the result list      *)
(* names the identifier of the task whose update failed.                   *)
(* Refuted: enumerate() numbers the completions, not the targets.          *)
(***************************************************************************)
C1_FailureNamesOwnIdentifier ==
    ReimportStarted =>
        \A k \in DOMAIN results :
            results[k].type = "Error" =>
                results[k].message[2] = existing_arns[completed[k]]

(***************************************************************************)
(* C2: a reimport over N targets yields one result entry per completed     *)
(* target and N entries when it returns; the entry a target yields is a    *)
(* success exactly when that target's own update succeeded, and a success  *)
(* entry carries the target's own identifier, whatever the other targets   *)
(* did.  (Which identifier a failure entry names is C1.)                   *)
(***************************************************************************)
C2_OneEntryPerTarget ==
    ReimportStarted =>
        /\ Len(results) = Len(completed)
        /\ \A t \in DOMAIN tasks :
            Cardinality({k \in DOMAIN completed : completed[k] = t})
                = IF task_state[t] = "Pending" THEN 0 ELSE 1
        /\ \A k \in DOMAIN results :
            /\ results[k].type = "Acm" <=> task_state[completed[k]] = "Ok"
            /\ results[k].type = "Error" <=> task_state[completed[k]] = "Err"
            /\ results[k].type = "Acm" => EntryNames(results[k], existing_arns[completed[k]])
        /\ ReturnedOk => Len(results) = Len(existing_arns)

\* the second of two targets failed first, the first then succeeded, and the call returned
C2_Witness ==
    /\ ReturnedOk
    /\ completed = <<2, 1>>
    /\ task_state = <<"Ok", "Err">>
    /\ existing_arns[1] # existing_arns[2]

(***************************************************************************)
(* C3: a reimport over N targets issues N update calls, one per target,    *)
(* however often a task is polled.                                         *)
(* Refuted: every poll of an AcmImportTask makes a new call.               *)
(***************************************************************************)
C3_EachUpdateIssuedOnce ==
    /\ \A t \in DOMAIN n_issued : n_issued[t] <= 1
    /\ (ReturnedOk /\ ReimportStarted) => \A t \in DOMAIN n_issued : n_issued[t] = 1

(***************************************************************************)
(* C4: every update call goes to the region in the fourth colon-delimited  *)
(* field of the ARN it updates, for every task made and every call issued. *)
(***************************************************************************)
C4_UpdateSentToOwnRegion ==
    /\ \A t \in DOMAIN tasks : FieldTokens(existing_arns[t], 4) = {tasks[t].acm}
    /\ \A u \in updates : FieldTokens(u.certificate_arn, 4) = {u.region}

\* updates of one call have gone to two regions
C4_Witness ==
    /\ ReturnedOk
    /\ \E u, v \in updates : u.region = "us-east-1" /\ v.region = "eu-west-1"

(***************************************************************************)
(* C5: a save_certificate call that returns a result list returns a        *)
(* non-empty one, as long as the write targets attempted.                  *)
(* Refuted: a present but empty CertificateArns passes validate and the    *)
(* reimport over it returns the empty list.                                *)
(***************************************************************************)
C5_ResultListNonEmpty ==
    ReturnedOk =>
        /\ Len(results) >= 1
        /\ Len(results) = n_create + Len(tasks)

(***************************************************************************)
(* C6: with force_new_import set, save_certificate makes one create call   *)
(* and no list, describe or update call.                                   *)
(***************************************************************************)
C6_ForceNewCreatesOnly ==
    force_new_import =>
        /\ n_list = 0 /\ n_describe = 0
        /\ updates = {} /\ tasks = <<>>
        /\ pc \in {"start", "invalid", "validated", "importing", "done"}
        /\ pc \in {"importing", "done"} => n_create = 1
        /\ pc = "done" => save_ret = "Ok" /\ Len(results) = 1

\* a forced create has returned
C6_Witness == force_new_import /\ ReturnedOk /\ n_create = 1

(***************************************************************************)
(* C7: without force_new_import and with an explicit CertificateArns list, *)
(* save_certificate updates the listed identifiers and only those, makes   *)
(* no list or describe call and creates nothing.                           *)
(***************************************************************************)
C7_ExplicitListReimported ==
    (~force_new_import /\ IsSome(certificate_arns)) =>
        /\ n_list = 0 /\ n_describe = 0 /\ n_create = 0
        /\ UpdatedArns \subseteq Range(Unwrap(certificate_arns))
        /\ pc \in {"reimporting", "done"} => existing_arns = Unwrap(certificate_arns)
        /\ pc = "done" =>
            /\ save_ret = "Ok"
            /\ UpdatedArns = Range(Unwrap(certificate_arns))

\* a reimport over two listed identifiers has returned
C7_Witness ==
    /\ ~force_new_import /\ IsSome(certificate_arns)
    /\ ReturnedOk
    /\ Cardinality(UpdatedArns) = 2

(***************************************************************************)
(* C8: with neither force_new_import nor CertificateArns, save_certificate *)
(* runs the matching engine; when it returns no identifier there is one    *)
(* create and one result entry, otherwise every returned identifier is     *)
(* updated and nothing is created.                                         *)
(***************************************************************************)
C8_MatchThenCreateOrReimport ==
    (~force_new_import /\ ~IsSome(certificate_arns)) =>
        /\ pc \in {"listing", "describing"} => n_create = 0 /\ updates = {}
        /\ pc \in {"describing", "importing", "reimporting", "done"} => n_list >= 1
        /\ pc \in {"importing", "reimporting"} \/ ReturnedOk =>
            IF matched = <<>>
            THEN /\ n_create = 1 /\ updates = {} /\ tasks = <<>>
                 /\ ReturnedOk => Len(results) = 1
            ELSE /\ n_create = 0
                 /\ existing_arns = matched
                 /\ UpdatedArns \subseteq Range(matched)
                 /\ ReturnedOk => UpdatedArns = Range(matched)

\* the matching engine looked at a candidate, kept none, and the create has returned
C8_Witness ==
    /\ ~force_new_import /\ ~IsSome(certificate_arns)
    /\ ReturnedOk
    /\ candidates # <<>> /\ matched = <<>>
    /\ n_create = 1 /\ Len(results) = 1

\* the matching engine kept two identifiers and both updates have returned
C8_WitnessReimport ==
    /\ ~force_new_import /\ ~IsSome(certificate_arns)
    /\ ReturnedOk
    /\ Len(matched) = 2 /\ UpdatedArns = Range(matched)

(***************************************************************************)
(* C9: find_matching_certificate returns an identifier only if ACM holds   *)
(* it with status issued or expired and origin imported, and its           *)
(* alternative names, sorted, are the requested domains, sorted.           *)
(***************************************************************************)
C9_MatchedOnlyIfEqual ==
    \A k \in DOMAIN matched :
        LET detail == acm_certs[matched[k]] IN
            /\ detail.status \in {"ISSUED", "EXPIRED"}
            /\ detail.type_ = Some("IMPORTED")
            /\ IsSome(detail.subject_alternative_names)
            /\ SameSorted(Unwrap(detail.subject_alternative_names), domain_names)

\* an identifier was returned for a request of two domains
C9_Witness == matched # <<>> /\ Len(domain_names) = 2 /\ pc = "reimporting"

(***************************************************************************)
(* C10: find_matching_certificate keeps every candidate whose describe     *)
(* call succeeded, whose origin is imported and whose alternative names,   *)
(* sorted, are the requested domains, sorted, in whatever order the        *)
(* domains were passed.                                                    *)
(* Refuted: the sorted alternative names are compared with domain_names as *)
(* passed, not with domain_names_sorted.                                   *)
(***************************************************************************)
C10_EveryEqualCandidateKept ==
    (pc \in {"importing", "reimporting"} /\ n_list >= 1) =>
        \A i \in DOMAIN candidates :
            LET detail == acm_certs[candidates[i]] IN
                ( /\ describe_outcome[i] = "Ok"
                  /\ detail.type_ = Some("IMPORTED")
                  /\ IsSome(detail.subject_alternative_names)
                  /\ SameSorted(Unwrap(detail.subject_alternative_names), domain_names) )
                => candidates[i] \in Range(matched)

(***************************************************************************)
(* C11: a failed list call during matching yields no matches and does not  *)
(* make save_certificate return an error.                                  *)
(* Refuted: the listing loop returns Err(e) and save_certificate passes it *)
(* on with `?`.                                                            *)
(***************************************************************************)
C11_ListFailureNonFatal == (pc = "done" /\ n_list >= 1) => save_ret = "Ok"

(***************************************************************************)
(* C12: in the describe fan-out a failed call drops its own candidate      *)
(* only: every candidate whose call succeeded is in the result exactly     *)
(* when the engine's test accepts its detail, and the pass goes on to the  *)
(* create or the reimport, whatever calls failed and in whatever order.    *)
(* (Whether the engine's test is the right one is C10.)                    *)
(***************************************************************************)
\* the test the engine makes of a described certificate
EngineAccepts(detail, names) ==
    /\ detail.type_ = Some("IMPORTED")
    /\ IsSome(detail.subject_alternative_names)
    /\ Sort(Unwrap(detail.subject_alternative_names)) = names

C12_DescribeFailureIsolated ==
    describe_outcome # <<>> =>
        /\ pc \in {"describing", "importing", "reimporting", "done"}
        /\ save_ret # "Err"
        /\ futures = {i \in DOMAIN candidates : describe_outcome[i] = "Pending"}
        /\ pc = "describing" <=> futures # {}
        /\ \A i \in DOMAIN candidates :
            /\ describe_outcome[i] \in {"Err", "Pending"} => candidates[i] \notin Range(matched)
            /\ describe_outcome[i] = "Ok" =>
                (candidates[i] \in Range(matched)
                    <=> EngineAccepts(acm_certs[candidates[i]], domain_names))

\* of two candidates one describe call failed, the other candidate was returned, and
\* the reimport over it has begun
C12_Witness ==
    /\ Len(candidates) = 2
    /\ \E i, j \in DOMAIN candidates :
        /\ describe_outcome[i] = "Err"
        /\ describe_outcome[j] = "Ok"
        /\ matched = <<candidates[j]>>
    /\ pc = "reimporting"

(***************************************************************************)
(* C13: validate fails for every configuration that has CertificateArns    *)
(* and ForceNewImport, whatever the list holds, with the error of the      *)
(* conflict and not that of an identifier.                                 *)
(***************************************************************************)
C13_ConflictRejected ==
    (pc # "start" /\ IsSome(certificate_arns) /\ force_new_import) =>
        /\ pc = "invalid"
        /\ validate_ret = ValidateErr("InvalidAcmConfiguration", None)

\* the conflict was reported for a list whose first identifier is malformed
C13_Witness ==
    /\ pc = "invalid"
    /\ force_new_import
    /\ IsSome(certificate_arns)
    /\ Len(Unwrap(certificate_arns)) = 2
    /\ Unwrap(certificate_arns)[1] = ArnTruncated
    /\ validate_ret.error = "InvalidAcmConfiguration"

(***************************************************************************)
(* C14: validate fails for every configuration whose list holds a string   *)
(* that is not arn:<partition>:acm:<region>:<12 digits>:certificate/<id>   *)
(* with a recognized region.                                               *)
(* Refuted: the account field is tested for its length only and the        *)
(* resource for its prefix only.                                           *)
(***************************************************************************)
\* the tokens that are twelve decimal digits
TwelveDigits == {"123456789012"}

\* s has the shape arn:<partition>:acm:<region>:<12 digits>:certificate/<id>
ArnWellFormed(s) ==
    /\ Count(":", s) = 5
    /\ FieldTokens(s, 1) = {"arn"}
    /\ FieldTokens(s, 2) # {}
    /\ FieldTokens(s, 3) = {"acm"}
    /\ \E r \in KnownRegions : FieldTokens(s, 4) = {r}
    /\ \E a \in TwelveDigits : FieldTokens(s, 5) = {a}
    /\ "certificate/" \in FieldTokens(s, 6)
    /\ FieldTokens(s, 6) # {"certificate/"}

C14_MalformedArnRejected ==
    (pc # "start" /\ IsSome(certificate_arns)
        /\ \E i \in DOMAIN Unwrap(certificate_arns) : ~ArnWellFormed(Unwrap(certificate_arns)[i]))
    => pc = "invalid"

(***************************************************************************)
(* C19: an empty domain_names makes the matching scan end with an error,   *)
(* not index the list out of bounds.                                       *)
(* Refuted: the scan reads domain_names[0] for the first summary that has  *)
(* a domain name.                                                          *)
(***************************************************************************)
C19_EmptyDomainsRejected == (n_list >= 1 /\ domain_names = <<>>) => pc # "panic"

(***************************************************************************)
(* C20: an update call that was issued and has not answered is not         *)
(* abandoned or issued again: a task that has a call in flight makes no    *)
(* further call.                                                           *)
(* Refuted: poll() drops the call it made when it answers Pending, and the *)
(* next poll makes a new one.                                              *)
(***************************************************************************)
C20_NoUpdateRestarted ==
    [][\A t \in DOMAIN n_issued :
          (t \in DOMAIN n_issued' /\ n_issued[t] >= 1) => n_issued'[t] = n_issued[t]]_vars

(***************************************************************************)
(* Vocabulary of the parameter-store properties.                           *)
(***************************************************************************)
\* the write of component c has no call left to make or to wait for
WriteFinished(c) ==
    \/ writes[c].put = "Err"
    \/ writes[c].put = "Ok" /\ writes[c].get \in {"Ok", "NoParameter", "NoArn", "Err"}

\* the write of component c put the value and read back a parameter with its ARN
WriteSucceeded(c) == writes[c].put = "Ok" /\ writes[c].get = "Ok"

\* the component a put_parameter request is for: the last part of its name
PutComponent(request) == request.name[5]

(***************************************************************************)
(* C15: SsmParameterStorage::save_certificate returns only when the four   *)
(* writes have finished; it returns the SsmParameter result when all four  *)
(* succeeded and an error, with no result list, when any of them failed.   *)
(***************************************************************************)
C15_SsmAllOrNothing ==
    storage.Type = "SsmParameter" =>
        /\ spc # "done" => sret = NoReturn
        /\ spc = "done" =>
            /\ \A c \in Components : WriteFinished(c)
            /\ sret.ok <=> \A c \in Components : WriteSucceeded(c)
            /\ ~sret.ok => sret.error \in {"RusotoError", "UnexpectedResponse"}

\* the first write failed at its put, the last one succeeded, and the call returned an error
C15_Witness ==
    /\ storage.Type = "SsmParameter"
    /\ spc = "done"
    /\ writes[1].put = "Err"
    /\ WriteSucceeded(4)
    /\ ~sret.ok

(***************************************************************************)
(* C16: the four put_parameter calls are made before the answer to any of  *)
(* them, or to any read-back, is taken: while the writes run, every        *)
(* component's put has been made.                                          *)
(***************************************************************************)
C16_PutsIssuedTogether ==
    (storage.Type = "SsmParameter" /\ spc \in {"writing", "done"}) =>
        /\ \A c \in Components : writes[c].put # "None"
        /\ {PutComponent(r) : r \in ssm_puts} = {WriteArgs[c].component : c \in Components}

\* the four puts are in flight and none has answered
C16_Witness ==
    /\ storage.Type = "SsmParameter"
    /\ spc = "writing"
    /\ \A c \in Components : writes[c].put = "InFlight"
    /\ Cardinality(ssm_puts) = 4

(***************************************************************************)
(* C17: the put of PrivateKey has the type SecureString, the puts of       *)
(* Certificate, Chain and FullChain the type String, and the private key   *)
(* is the value of no put of type String.                                  *)
(***************************************************************************)
C17_PrivateKeySecure ==
    \A r \in ssm_puts :
        /\ PutComponent(r) = "PrivateKey" => r.type_ = Some("SecureString")
        /\ PutComponent(r) \in {"Certificate", "Chain", "FullChain"} => r.type_ = Some("String")
        /\ r.value = "pkey_pem" <=> PutComponent(r) = "PrivateKey"
        /\ r.value = "pkey_pem" => r.type_ # Some("String")

\* a save has made its four puts, that of the private key among them, and returned
C17_Witness ==
    /\ spc = "done"
    /\ Cardinality(ssm_puts) = 4
    /\ \E r \in ssm_puts : r.value = "pkey_pem" /\ r.type_ = Some("SecureString")

(***************************************************************************)
(* C18: save_certificate of S3Storage never returns a result: every call   *)
(* ends in a panic, and no object is written.                              *)
(***************************************************************************)
C18_S3NeverSucceeds ==
    storage.Type = "S3" =>
        /\ spc \in {"start", "invalid", "validated", "panic"}
        /\ sret = NoReturn
        /\ s3_writes = {}
        /\ ssm_puts = {}

\* save_certificate was called on a validated S3Storage and panicked
C18_Witness == storage.Type = "S3" /\ IsSome(storage.region) /\ spc = "panic"

(***************************************************************************)
(* C21: the create path makes one import_certificate call and no other:    *)
(* the call is never made again, and when it answers save_certificate      *)
(* returns Ok with a list of one entry, an Acm result when the call        *)
(* succeeded and an Error entry when it failed.                            *)
(***************************************************************************)
C21_CreateOnceOneEntry ==
    [][/\ n_create' <= 1
       /\ pc = "importing" =>
            /\ n_create = 1
            /\ pc' = "done"
            /\ n_create' = 1
            /\ save_ret' = "Ok"
            /\ Len(results') = 1
       /\ \A outcome \in {"Ok", "Err"} :
            ImportResponse(outcome) =>
                results'[1].type = IF outcome = "Ok" THEN "Acm" ELSE "Error"]_vars

\* the one import call failed and save_certificate returned Ok with one Error entry
C21_Witness ==
    /\ pc = "done"
    /\ n_create = 1
    /\ save_ret = "Ok"
    /\ Len(results) = 1
    /\ results[1].type = "Error"

(***************************************************************************)
(* C22: a write makes its get_parameter call only after its put_parameter  *)
(* call succeeded; it ends in the UnexpectedResponse error only when the   *)
(* read-back answered without a parameter or without an ARN, and a failed  *)
(* put_parameter or get_parameter call ends it in another error.           *)
(***************************************************************************)
C22_ReadBackErrorKinds ==
    \A c \in Components :
        /\ writes[c].get # "None" => writes[c].put = "Ok"
        /\ writes[c].put = "Err" =>
              GetRequest(storage.path, sdomains[1], WriteArgs[c]) \notin ssm_gets
        /\ writes[c].ret = "UnexpectedResponse" => writes[c].get \in {"NoParameter", "NoArn"}
        /\ (writes[c].put = "Err" \/ writes[c].get = "Err") =>
              writes[c].ret \notin {"Pending", "Ok", "UnexpectedResponse"}

(***************************************************************************)
(* C23: once validate has accepted a configuration with a CertificateArns  *)
(* list, the fourth colon-delimited field of every listed ARN is a known   *)
(* region, neither expect() of AcmImportTask::new fails, and no later step *)
(* of save_certificate panics.                                             *)
(***************************************************************************)
C23_ValidatedRegionsResolve ==
    (IsSome(certificate_arns) /\ validate_ret.ok /\ pc # "start") =>
        /\ \A i \in DOMAIN Unwrap(certificate_arns) :
              LET parts == Split(Unwrap(certificate_arns)[i]) IN
                  /\ Len(parts) >= 4
                  /\ parts[4] \in {Str(r) : r \in KnownRegions}
                  /\ TaskNewOk(Unwrap(certificate_arns)[i])
        /\ pc # "panic"

\* a validated list of two ARNs of two regions was handed to reimport_certificate, which
\* made a task for each
C23_Witness ==
    /\ IsSome(certificate_arns)
    /\ validate_ret.ok
    /\ pc = "reimporting"
    /\ existing_arns = Unwrap(certificate_arns)
    /\ Len(tasks) = 2
    /\ tasks[1].acm # tasks[2].acm

====
